---- MODULE Spec2Model ----
(***************************************************************************)
(* Team balancer (teamBalancer.js, app.js): the scoring function, the four *)
(* constructive strategies, the swap optimizer, the orchestrator           *)
(* createTeamDistribution and the generateTeams request of the page.       *)
(*                                                                         *)
(* Numbers.  The code computes in IEEE doubles; the model computes in      *)
(* exact rationals, every metric of an evaluation being held as an integer *)
(* numerator over the common denominator T^3 (T = number of teams).  For   *)
(* T = 2 every intermediate value of the code is a dyadic rational, so the *)
(* doubles are exact and the model agrees with the code bit for bit.  For   *)
(* other T the model is the exact reading of the same expressions.         *)
(*                                                                         *)
(* Arrays are 0-based in the code and 1-based here: team index t of the    *)
(* code is teams[t + 1] in the model.  Loop cursors keep the code's        *)
(* 0-based values.                                                         *)
(***************************************************************************)
EXTENDS Integers, Sequences, FiniteSets, TLC

VARIABLES
    players,         \* the roster handed to the request (Array<Player>)
    numTeams,        \* the requested number of teams
    call,            \* the entry point that ran: "" before any call
    strategyName,    \* the strategy name of the call ("" when none)
    perTeam,         \* the playersPerTeam argument of the call (0 when none)
    pc,              \* "idle", "optimizing" (inside optimizeTeams) or "done"
    initial,         \* what the strategy function returned or threw
    ret,             \* what the call returned or threw
    currentResults,  \* app.js currentResults: the stored distribution
    opt,             \* the local state of a running optimizeTeams
    run,             \* optimizeTeams alone: how many calls were started in a row
    given,           \* the partition handed to the running optimizeTeams call
    optimizeChecked, \* the page's "Optimize results?" checkbox at the request
    customWeights    \* the customWeights argument of loadPlayersFromCSV

vars == <<players, numTeams, call, strategyName, perTeam, pc, initial, ret, currentResults, opt, run, given, optimizeChecked, customWeights>>

---------------------------------------------------------------------------
(* Bounds of the model *)

MaxPlayers == 4      \* roster length of a request: 0..MaxPlayers
MaxTeams == 3        \* requested team count: 0..MaxTeams
MaxCallPlayers == 3  \* roster length of a direct library call: 0..MaxCallPlayers
NumTiers == 3        \* tiers a roster draws from: the first NumTiers of InputTiers
MaxOptSize == 2      \* optimizeTeams alone: two teams of 1..MaxOptSize, any tiers of the pool
LargeSize == 5       \* optimizeTeams alone: two teams of LargeSize, see LargePartitions
MaxRuns == 2         \* optimizeTeams alone: calls made in a row, each on the previous result
MaxCsvRows == 2      \* data rows of a CSV handed to loadPlayersFromCSV: 0..MaxCsvRows
MaxDealPlayers == 6  \* a strategy alone: roster length 0..MaxDealPlayers
DealTiers == 2       \* a strategy alone: the first DealTiers of InputTiers
GroupLimit == 2      \* random and snake alone: non-captains of one tier, at most

InputTiers == <<"S+", "S", "A", "F", "B", "S/A", "A/B", "C", "D">>

---------------------------------------------------------------------------
(* Tiers and players *)

DEFAULT_TIER_ORDER == <<"S+", "S", "S/A", "A", "A/B", "B", "C", "D", "F">>

DEFAULT_TIER_SCORES ==
    ("S+" :> 13) @@ ("S" :> 10) @@ ("S/A" :> 9) @@ ("A" :> 8) @@ ("A/B" :> 7) @@
    ("B" :> 5) @@ ("C" :> 2) @@ ("D" :> 0) @@ ("F" :> -1)

VALID_TIERS == DOMAIN DEFAULT_TIER_SCORES

Player(name, tier, isCaptain) ==
    [name |-> name, tier |-> tier, score |-> DEFAULT_TIER_SCORES[tier],
     isCaptain |-> isCaptain]

clone(p) == Player(p.name, p.tier, p.isCaptain)

\* The JavaScript value undefined, where the code stores it in a team.
Undefined == [name |-> 0, tier |-> "undefined", score |-> 0, isCaptain |-> FALSE]

---------------------------------------------------------------------------
(* Sequence helpers *)

Range(s) == {s[k] : k \in DOMAIN s}

RECURSIVE SumSeq(_)
SumSeq(s) == IF s = <<>> THEN 0 ELSE Head(s) + SumSeq(Tail(s))

RECURSIVE Flat(_)
Flat(ss) == IF ss = <<>> THEN <<>> ELSE Head(ss) \o Flat(Tail(ss))

\* The first element taken for the largest.
MaxOfFirst(s) == s[1]

MaxOf(s) == CHOOSE x \in Range(s) : \A y \in Range(s) : y <= x
MinOf(s) == CHOOSE x \in Range(s) : \A y \in Range(s) : x <= y

Pow2(x) == x * x

---------------------------------------------------------------------------
(* Scoring: calculateTeamMetrics and evaluateTeams *)

\* tierCounts holds an entry only for the tiers that occur in the team.
calculateTeamMetrics(team) ==
    [totalStrength |-> SumSeq([k \in DOMAIN team |-> team[k].score]),
     tierCounts |-> [t \in {team[k].tier : k \in DOMAIN team} |->
                        Cardinality({k \in DOMAIN team : team[k].tier = t})]]

\* 'S+SABCDEF'.split('') and the Set built from it.
AllTiersChars == <<"S", "+", "S", "A", "B", "C", "D", "E", "F">>
allTiers == Range(AllTiersChars)

\* metrics.tierCounts[tier] || 0
TierCountOf(metrics, tier) ==
    IF tier \in DOMAIN metrics.tierCounts THEN metrics.tierCounts[tier] ELSE 0

\* The weights of the variance and of the difference exchanged.
CombinedScoreSwapped(strengthVariance, tierImbalance, strengthDiff) ==
    strengthVariance * 10 + tierImbalance + strengthDiff * 2

\* strengthVariance * 2 + tierImbalance + strengthDiff * 10
CombinedScore(strengthVariance, tierImbalance, strengthDiff) ==
    strengthVariance * 2 + tierImbalance + strengthDiff * 10

\* Every field but den is the numerator of the code's value over den = T^3:
\*   avgStrength = S/T, so sum (s - avg)^2 / T = sum (T*s - S)^2 / T^3;
\*   tierAvg = C/T,     so sum (c - avg)^2     = sum (T*c - C)^2 / T^2.
evaluateTeams(teams) ==
    LET T == Len(teams)
        teamMetrics == [k \in 1..T |-> calculateTeamMetrics(teams[k])]
        teamStrengths == [k \in 1..T |-> teamMetrics[k].totalStrength]
        strengthDiff == MaxOf(teamStrengths) - MinOf(teamStrengths)
        S == SumSeq(teamStrengths)
        varianceNum == SumSeq([k \in 1..T |-> Pow2(T * teamStrengths[k] - S)])
        TierVarianceNum(tier) ==
            LET tierCounts == [k \in 1..T |-> TierCountOf(teamMetrics[k], tier)]
                C == SumSeq(tierCounts)
            IN  IF \E k \in 1..T : tierCounts[k] > 0
                THEN SumSeq([k \in 1..T |-> Pow2(T * tierCounts[k] - C)])
                ELSE 0
        RECURSIVE SumTiers(_)
        SumTiers(ts) ==
            IF ts = {} THEN 0
            ELSE LET t == CHOOSE x \in ts : TRUE
                 IN  TierVarianceNum(t) + SumTiers(ts \ {t})
        tierImbalanceNum == SumTiers(allTiers)
    IN  [den |-> T * T * T,
         strengthVariance |-> varianceNum,
         strengthDiff |-> T * T * T * strengthDiff,
         tierImbalance |-> T * tierImbalanceNum,
         score |-> CombinedScore(varianceNum, T * tierImbalanceNum, T * T * T * strengthDiff)]

---------------------------------------------------------------------------
(* Results of the library functions: a value, or the error they throw *)

ERR_TYPE == "TypeError"
ERR_UNEVEN == "Failed to distribute players evenly"
ERR_UNEVEN_CLUSTER == "Failed to distribute players evenly in cluster method"
ERR_UNKNOWN_STRATEGY == "Unknown distribution strategy"
ERR_TEAMS_LT_2 == "Number of teams must be at least 2. Received"
ERR_NOT_ENOUGH == "Not enough players"
ERR_NOT_DIVISIBLE == "Total number of players must be evenly divisible by the number of teams"
ERR_CAPTAINS == "Number of captains exceeds the number of teams"
\* A loop of the code that never ends on this input.
HANG == "does not terminate"

\* What a strategy hands back: the teams, with the team index of every push
\* that built them, in the order of the pushes.  attempt holds the pushes into
\* the arrays a strategy gave up before it started again on new ones.
Built(teams, picks) == [error |-> "", teams |-> teams, picks |-> picks, attempt |-> <<>>]
Thrown(msg) == [error |-> msg, teams |-> <<>>, picks |-> <<>>, attempt |-> <<>>]

---------------------------------------------------------------------------
(* Pieces the strategies share *)

IsCaptain(p) == p.isCaptain
NotCaptain(p) == ~p.isCaptain

\* A sort that is not stable: of two equal scores the later one comes first.
RECURSIVE SortLaterFirst(_)
SortLaterFirst(s) ==
    IF s = <<>> THEN <<>>
    ELSE LET front == SortLaterFirst(SubSeq(s, 1, Len(s) - 1))
             p == s[Len(s)]
             k == Cardinality({x \in DOMAIN front : front[x].score > p.score})
         IN  SubSeq(front, 1, k) \o <<p>> \o SubSeq(front, k + 1, Len(front))

\* [...nonCaptains].sort((a, b) => b.score - a.score): Array.prototype.sort is
\* stable, so equal scores keep their roster order.
RECURSIVE SortByScoreDesc(_)
SortByScoreDesc(s) ==
    IF s = <<>> THEN <<>>
    ELSE LET front == SortByScoreDesc(SubSeq(s, 1, Len(s) - 1))
             p == s[Len(s)]
             k == Cardinality({x \in DOMAIN front : front[x].score >= p.score})
         IN  SubSeq(front, 1, k) \o <<p>> \o SubSeq(front, k + 1, Len(front))

\* The captains put on the last teams instead of the first.
CaptainTeamsFromLast(captains, T) ==
    [k \in 1..T |-> IF k > T - Len(captains) THEN <<captains[k - (T - Len(captains))]>>
                                              ELSE <<>>]

\* Array(numTeams).fill().map(() => []) followed by
\* captains.forEach((captain, index) => teams[index].push(captain)).
CaptainTeams(captains, T) ==
    [k \in 1..T |-> IF k <= Len(captains) THEN <<captains[k]>> ELSE <<>>]

CaptainPicks(captains) == [k \in 1..Len(captains) |-> k - 1]

Forward(T) == [k \in 1..T |-> k]
\* A backward order that runs forward.
ReverseRunsForward(T) == [k \in 1..T |-> k]
Reverse(T) == [k \in 1..T |-> T + 1 - k]

\* for (const teamIdx of teamOrder) { if (pool empty || team full) continue;
\*                                    teams[teamIdx].push(pool.shift()); }
RECURSIVE DealRound(_, _, _, _, _)
DealRound(teams, pool, picks, order, playersPerTeam) ==
    IF order = <<>> THEN [teams |-> teams, pool |-> pool, picks |-> picks]
    ELSE LET t == Head(order)
         IN  IF pool = <<>> \/ Len(teams[t]) >= playersPerTeam
             THEN DealRound(teams, pool, picks, Tail(order), playersPerTeam)
             ELSE DealRound([teams EXCEPT ![t] = Append(@, Head(pool))], Tail(pool),
                            Append(picks, t - 1), Tail(order), playersPerTeam)

\* while (!filled && pool.length > 0) { if (teams[currentIndex].length === 0)
\*     teams[currentIndex].push(pool.shift()); currentIndex++;
\*     if (currentIndex >= numTeams) filled = true; }
RECURSIVE FillEmptyTeams(_, _, _, _)
FillEmptyTeams(teams, pool, picks, currentIndex) ==
    IF currentIndex >= Len(teams) \/ pool = <<>>
    THEN [teams |-> teams, pool |-> pool, picks |-> picks]
    ELSE IF Len(teams[currentIndex + 1]) = 0
         THEN FillEmptyTeams([teams EXCEPT ![currentIndex + 1] = Append(@, Head(pool))],
                             Tail(pool), Append(picks, currentIndex), currentIndex + 1)
         ELSE FillEmptyTeams(teams, pool, picks, currentIndex + 1)

\* for (const team of teams) if (team.length !== playersPerTeam) throw ...
SizesOk(teams, playersPerTeam) ==
    \A k \in DOMAIN teams : Len(teams[k]) = playersPerTeam

---------------------------------------------------------------------------
(* distributeTeamsRoundRobin *)

\* The dealing loop never entered.
RoundRobinNoRounds(teams, pool, picks, roundNum, playersPerTeam) ==
    [teams |-> teams, pool |-> pool, picks |-> picks]

RECURSIVE RoundRobinRounds(_, _, _, _, _)
RoundRobinRounds(teams, pool, picks, roundNum, playersPerTeam) ==
    IF pool # <<>> /\ \A k \in DOMAIN teams : Len(teams[k]) < playersPerTeam
    THEN LET teamOrder == IF roundNum % 2 = 1 THEN Forward(Len(teams))
                                               ELSE Reverse(Len(teams))
             r == DealRound(teams, pool, picks, teamOrder, playersPerTeam)
         IN  RoundRobinRounds(r.teams, r.pool, r.picks, roundNum + 1, playersPerTeam)
    ELSE [teams |-> teams, pool |-> pool, picks |-> picks]

distributeTeamsRoundRobin(ps, T, playersPerTeam) ==
    IF \E k \in DOMAIN ps : ps[k] = Undefined
    THEN Thrown(ERR_TYPE)                      \* player.isCaptain of undefined
    ELSE
    LET captains == SelectSeq(ps, IsCaptain)
        nonCaptains == SelectSeq(ps, NotCaptain)
    IN  IF Len(captains) > T
        THEN Thrown(ERR_TYPE)                  \* teams[index] is undefined
        ELSE
        LET teams0 == CaptainTeams(captains, T)
            sortedPlayers == SortByScoreDesc(nonCaptains)
            nEmpty == T - Len(captains)        \* teams.filter(team => team.length === 0)
            nTop == IF nEmpty < Len(sortedPlayers) THEN nEmpty ELSE Len(sortedPlayers)
            topPlayers == SubSeq(sortedPlayers, 1, nTop)      \* splice(0, nEmpty)
            rest == SubSeq(sortedPlayers, nTop + 1, Len(sortedPlayers))
            teams1 == [k \in 1..T |->
                         IF k <= Len(captains) THEN teams0[k]
                         ELSE IF k - Len(captains) <= nTop
                              THEN <<topPlayers[k - Len(captains)]>>
                              ELSE <<Undefined>>]          \* topPlayers[index] past its end
            picks1 == CaptainPicks(captains) \o [k \in 1..nEmpty |-> Len(captains) + k - 1]
            r == RoundRobinRounds(teams1, rest, picks1, 1, playersPerTeam)
        IN  IF SizesOk(r.teams, playersPerTeam)
            THEN Built(r.teams, r.picks)
            ELSE Thrown(ERR_UNEVEN)

---------------------------------------------------------------------------
(* distributeTeamsCluster *)

\* Every cluster dealt forward.
RECURSIVE ClusterDealForward(_, _, _, _)
ClusterDealForward(teams, pool, picks, i) ==
    IF pool = <<>> THEN [teams |-> teams, picks |-> picks]
    ELSE LET T == Len(teams)
             n == IF Len(pool) < T THEN Len(pool) ELSE T
             teams2 == [k \in 1..T |-> IF k <= n THEN Append(teams[k], pool[k]) ELSE teams[k]]
             picks2 == picks \o [j \in 1..n |-> j - 1]
         IN  ClusterDealForward(teams2, SubSeq(pool, n + 1, Len(pool)), picks2, i + 1)

\* clusters.forEach((cluster, i) => cluster.forEach((player, j) => ...)), the
\* clusters being the consecutive slices of numTeams players.
RECURSIVE ClusterDeal(_, _, _, _)
ClusterDeal(teams, pool, picks, i) ==
    IF pool = <<>> THEN [teams |-> teams, picks |-> picks]
    ELSE LET T == Len(teams)
             n == IF Len(pool) < T THEN Len(pool) ELSE T
             cluster == SubSeq(pool, 1, n)
             Target(j) == IF i % 2 = 0 THEN j ELSE T + 1 - j      \* 1-based
             teams2 == [k \in 1..T |->
                          IF \E j \in 1..n : Target(j) = k
                          THEN Append(teams[k], cluster[CHOOSE j \in 1..n : Target(j) = k])
                          ELSE teams[k]]
             picks2 == picks \o [j \in 1..n |-> Target(j) - 1]
         IN  ClusterDeal(teams2, SubSeq(pool, n + 1, Len(pool)), picks2, i + 1)

distributeTeamsCluster(ps, T, playersPerTeam) ==
    LET captains == SelectSeq(ps, IsCaptain)
        nonCaptains == SelectSeq(ps, NotCaptain)
    IN  IF Len(captains) > T
        THEN Thrown(ERR_TYPE)
        ELSE
        LET sortedPlayers == SortByScoreDesc(nonCaptains)
            f == FillEmptyTeams(CaptainTeams(captains, T), sortedPlayers,
                                CaptainPicks(captains), 0)
            r == ClusterDeal(f.teams, f.pool, f.picks, 0)
        IN  IF SizesOk(r.teams, playersPerTeam)
            THEN Built(r.teams, r.picks)
            ELSE Thrown(ERR_UNEVEN_CLUSTER)

---------------------------------------------------------------------------
(* Randomness: shuffle (Fisher-Yates) and the random comparator of snake *)

SwapAt(arr, a, b) == [arr EXCEPT ![a] = arr[b], ![b] = arr[a]]

\* for (i = length - 1; i > 0; i--) { j = floor(random * (i + 1)); swap i, j }
\* i is the code's 0-based index; every j in 0..i can be drawn.
RECURSIVE ShuffleFrom(_, _)
ShuffleFrom(arr, i) ==
    IF i <= 0 THEN {arr}
    ELSE UNION {ShuffleFrom(SwapAt(arr, i + 1, j + 1), i - 1) : j \in 0..i}

shuffle(arr) == ShuffleFrom(arr, Len(arr) - 1)

\* playersInTier.sort(() => Math.random() - 0.5): an inconsistent comparator,
\* so the engine's sort may leave the group in any order.
RandomSort(arr) ==
    {[k \in DOMAIN arr |-> arr[f[k]]] :
        f \in {g \in [DOMAIN arr -> DOMAIN arr] : \A a, b \in DOMAIN arr : a # b => g[a] # g[b]}}

\* playersByTier[tier]: the non-captains of that tier, in roster order.
TierGroup(nonCaptains, tier) ==
    LET InTier(p) == p.tier = tier IN SelectSeq(nonCaptains, InTier)

---------------------------------------------------------------------------
(* distributeTeamsSnake *)

\* The draft queues the tier-by-tier concatenation can produce.
RECURSIVE SnakeQueues(_, _)
SnakeQueues(nonCaptains, tiers) ==
    IF tiers = <<>> THEN {<<>>}
    ELSE LET group == TierGroup(nonCaptains, Head(tiers))
         IN  {g \o q : g \in RandomSort(group), q \in SnakeQueues(nonCaptains, Tail(tiers))}

\* The directions exchanged: backward in the even rounds.
RECURSIVE SnakeRoundsEvenBackward(_, _, _, _, _)
SnakeRoundsEvenBackward(teams, pool, picks, roundNum, playersPerTeam) ==
    IF pool = <<>> THEN [hang |-> FALSE, teams |-> teams, picks |-> picks]
    ELSE LET teamIndices == IF roundNum % 2 = 0 THEN Reverse(Len(teams))
                                                 ELSE Forward(Len(teams))
             r == DealRound(teams, pool, picks, teamIndices, playersPerTeam)
         IN  IF r.pool = pool
             THEN [hang |-> TRUE, teams |-> teams, picks |-> picks]
             ELSE SnakeRoundsEvenBackward(r.teams, r.pool, r.picks, roundNum + 1,
                                          playersPerTeam)

\* while (sortedPlayers.length > 0) { deal one round; roundNum++ }.  A round that
\* places nobody leaves the loop condition as it was: the loop never ends.
RECURSIVE SnakeRounds(_, _, _, _, _)
SnakeRounds(teams, pool, picks, roundNum, playersPerTeam) ==
    IF pool = <<>> THEN [hang |-> FALSE, teams |-> teams, picks |-> picks]
    ELSE LET teamIndices == IF roundNum % 2 = 0 THEN Forward(Len(teams))
                                                 ELSE Reverse(Len(teams))
             r == DealRound(teams, pool, picks, teamIndices, playersPerTeam)
         IN  IF r.pool = pool
             THEN [hang |-> TRUE, teams |-> teams, picks |-> picks]
             ELSE SnakeRounds(r.teams, r.pool, r.picks, roundNum + 1, playersPerTeam)

SnakeWithQueue(captains, sortedPlayers, T, playersPerTeam) ==
    LET f == FillEmptyTeams(CaptainTeams(captains, T), sortedPlayers,
                            CaptainPicks(captains), 0)
        r == SnakeRounds(f.teams, f.pool, f.picks, 1, playersPerTeam)
    IN  IF r.hang THEN Thrown(HANG)
        ELSE IF SizesOk(r.teams, playersPerTeam)
             THEN Built(r.teams, r.picks)
             ELSE Thrown(ERR_UNEVEN)

\* The set of outcomes, one for each way the random sorts can fall.
distributeTeamsSnake(ps, T, playersPerTeam) ==
    LET captains == SelectSeq(ps, IsCaptain)
        nonCaptains == SelectSeq(ps, NotCaptain)
    IN  IF Len(captains) > T
        THEN {Thrown(ERR_TYPE)}
        ELSE {SnakeWithQueue(captains, q, T, playersPerTeam) :
                 q \in SnakeQueues(nonCaptains, DEFAULT_TIER_ORDER)}

---------------------------------------------------------------------------
(* distributeTeamsRandom *)

\* Object.entries(playersByTier).sort(): each entry is compared as the string
\* "<tier>,[object Object],...", and ',' sorts after '+' and before '/'.
RandomTierOrder == <<"A", "A/B", "B", "C", "D", "F", "S+", "S", "S/A">>

\* tierPlayers.forEach((player, i) => teams[i % numTeams].push(player))
RECURSIVE AssignTier(_, _, _, _)
AssignTier(teams, picks, tierPlayers, i) ==
    IF i >= Len(tierPlayers) THEN [teams |-> teams, picks |-> picks]
    ELSE LET teamIdx == i % Len(teams)
         IN  AssignTier([teams EXCEPT ![teamIdx + 1] = Append(@, tierPlayers[i + 1])],
                        Append(picks, teamIdx), tierPlayers, i + 1)

RECURSIVE RandomByTier(_, _, _, _)
RandomByTier(teams, picks, nonCaptains, tiers) ==
    IF tiers = <<>> THEN {[teams |-> teams, picks |-> picks]}
    ELSE LET group == TierGroup(nonCaptains, Head(tiers))
         IN  IF group = <<>>
             THEN RandomByTier(teams, picks, nonCaptains, Tail(tiers))
             ELSE UNION {LET a == AssignTier(teams, picks, g, 0)
                         IN  RandomByTier(a.teams, a.picks, nonCaptains, Tail(tiers)) :
                            g \in shuffle(group)}

\* firstPlayer = team[0]; restPlayers = team.slice(1); shuffle(restPlayers);
\* team.length = 0; team.push(firstPlayer, ...restPlayers): an empty team ends
\* up holding undefined.
ReshuffleTeam(team) ==
    LET firstPlayer == IF team = <<>> THEN Undefined ELSE team[1]
        restPlayers == IF team = <<>> THEN <<>> ELSE Tail(team)
    IN  {<<firstPlayer>> \o rest : rest \in shuffle(restPlayers)}

RECURSIVE ReshuffleTeams(_)
ReshuffleTeams(teams) ==
    IF teams = <<>> THEN {<<>>}
    ELSE {<<t>> \o ts : t \in ReshuffleTeam(Head(teams)), ts \in ReshuffleTeams(Tail(teams))}

distributeTeamsRandom(ps, T, playersPerTeam) ==
    LET captains == SelectSeq(ps, IsCaptain)
        nonCaptains == SelectSeq(ps, NotCaptain)
    IN  IF Len(captains) > T
        THEN {Thrown(ERR_TYPE)}
        ELSE UNION {
               {IF SizesOk(teams, playersPerTeam)
                THEN Built(teams, a.picks)
                ELSE [distributeTeamsRoundRobin(Flat(teams), T, playersPerTeam)
                         EXCEPT !.attempt = a.picks] :
                   teams \in ReshuffleTeams(a.teams)} :
               a \in RandomByTier(CaptainTeams(captains, T), CaptainPicks(captains),
                                  nonCaptains, RandomTierOrder)}

---------------------------------------------------------------------------
(* optimizeTeams *)
(* The arrays live in a small heap so that copying and aliasing differ: a   *)
(* reference is a slot number, input is the caller's array, best the array  *)
(* bestTeams points to.  A slot that no variable points to is garbage and   *)
(* is reused by the next copy.                                              *)

maxIterations == 1000
noImprovementLimit == 100

Refs == 1..3

\* No copy at all: the new variable points to the array it was to copy.
CloneTeamsAliased(heap, src, live) == [heap |-> heap, ref |-> src]

\* teams.map(team => team.map(player => player.clone())): a new outer array of
\* new inner arrays of new players, placed in a slot that is not live.
CloneTeams(heap, src, live) ==
    LET dst == CHOOSE r \in Refs \ live : \A q \in Refs \ live : r <= q
    IN  [heap |-> [heap EXCEPT ![dst] =
                      [k \in DOMAIN heap[src] |->
                          [q \in DOMAIN heap[src][k] |-> clone(heap[src][k][q])]]],
         ref |-> dst]

\* A swap that forgets its second half: t[i][p1] = t[j][p2] only.
SwapPlayersOneWay(t, i, p1, j, p2) ==
    [t EXCEPT ![i + 1][p1 + 1] = t[j + 1][p2 + 1]]

\* [t[i][p1], t[j][p2]] = [t[j][p2], t[i][p1]]   (0-based i, j, p1, p2)
SwapPlayers(t, i, p1, j, p2) ==
    [t EXCEPT ![i + 1][p1 + 1] = t[j + 1][p2 + 1], ![j + 1][p2 + 1] = t[i + 1][p1 + 1]]

\* The comparison turned round.
ImprovesWhenWorse(newScore, bestScore) == newScore > bestScore

\* An equal score adopted too.
ImprovesOrEquals(newScore, bestScore) == newScore <= bestScore

\* if (newScore < bestScore)
Improves(newScore, bestScore) == newScore < bestScore

\* Double swaps in every iteration.
DoubleSwapEveryTurn(iteration) == TRUE

\* if (iteration % 10 === 0)
DoubleSwapTurn(iteration) == iteration % 10 = 0

\* The loop nest of the single swaps: the first position at or after
\* (i, j, p1, p2) in the order the four for-loops visit, or <<>> past the end.
RECURSIVE SingleCursor(_, _, _, _, _)
SingleCursor(teams, i, j, p1, p2) ==
    IF i >= Len(teams) THEN <<>>
    ELSE IF j >= Len(teams) THEN SingleCursor(teams, i + 1, i + 2, 0, 0)
    ELSE IF p1 >= Len(teams[i + 1]) THEN SingleCursor(teams, i, j + 1, 0, 0)
    ELSE IF p2 >= Len(teams[j + 1]) THEN SingleCursor(teams, i, j, p1 + 1, 0)
    ELSE <<i, j, p1, p2>>

\* The loop nest of the double swaps: p2 starts at p1 + 1, p4 at p3 + 1.
RECURSIVE DoubleCursor(_, _, _, _, _, _, _)
DoubleCursor(teams, i, j, p1, p2, p3, p4) ==
    IF i >= Len(teams) THEN <<>>
    ELSE IF j >= Len(teams) THEN DoubleCursor(teams, i + 1, i + 2, 0, 1, 0, 1)
    ELSE IF p1 >= Len(teams[i + 1]) THEN DoubleCursor(teams, i, j + 1, 0, 1, 0, 1)
    ELSE IF p2 >= Len(teams[i + 1]) THEN DoubleCursor(teams, i, j, p1 + 1, p1 + 2, 0, 1)
    ELSE IF p3 >= Len(teams[j + 1]) THEN DoubleCursor(teams, i, j, p1, p2 + 1, 0, 1)
    ELSE IF p4 >= Len(teams[j + 1]) THEN DoubleCursor(teams, i, j, p1, p2, p3 + 1, p3 + 2)
    ELSE <<i, j, p1, p2, p3, p4>>

\* The state of optimizeTeams before it is called.
IdleOpt ==
    [pc |-> "idle", heap |-> [r \in Refs |-> <<>>], input |-> 1, best |-> 1,
     bestScore |-> 0, noImprovementCount |-> 0, iteration |-> 0, cur |-> <<>>,
     trials |-> 0, adopted |-> FALSE]

\* A loop head that starts the count anew where it should leave the loop.
LoopHeadStartsAnew(o) ==
    LET first == SingleCursor(o.heap[o.input], 0, 1, 0, 0)
    IN  IF first = <<>>
        THEN [o EXCEPT !.pc = "done", !.cur = <<>>, !.iteration = maxIterations]
        ELSE IF o.iteration >= maxIterations \/ o.noImprovementCount >= noImprovementLimit
        THEN [o EXCEPT !.pc = "single", !.cur = first, !.iteration = 0,
                       !.noImprovementCount = 0, !.trials = 0]
        ELSE [o EXCEPT !.pc = "single", !.cur = first]

\* The head of the outer for-loop: its condition, the break, and the entry into
\* the single-swap nest.  With no pair of teams to swap between, every one of
\* the remaining iterations is empty.
LoopHead(o) ==
    IF o.iteration >= maxIterations \/ o.noImprovementCount >= noImprovementLimit
    THEN [o EXCEPT !.pc = "done", !.cur = <<>>]
    ELSE LET first == SingleCursor(o.heap[o.input], 0, 1, 0, 0)
         IN  IF first = <<>>
             THEN [o EXCEPT !.pc = "done", !.cur = <<>>, !.iteration = maxIterations]
             ELSE [o EXCEPT !.pc = "single", !.cur = first]

NextIteration(o) == LoopHead([o EXCEPT !.iteration = @ + 1])

\* After the single-swap nest of an iteration.
AfterSingles(o) ==
    IF DoubleSwapTurn(o.iteration)
    THEN LET first == DoubleCursor(o.heap[o.input], 0, 1, 0, 1, 0, 1)
         IN  IF first = <<>> THEN NextIteration(o)
             ELSE [o EXCEPT !.pc = "double", !.cur = first]
    ELSE NextIteration(o)

\* Lines 524-531: clone, evaluate, return at once on a perfect score.
\* player.clone() of undefined throws.
OptStart(teams) ==
    IF \E k \in DOMAIN teams : \E q \in DOMAIN teams[k] : teams[k][q] = Undefined
    THEN [IdleOpt EXCEPT !.pc = "threw", !.heap[1] = teams]
    ELSE LET c == CloneTeams([IdleOpt.heap EXCEPT ![1] = teams], 1, {1})
             o == [IdleOpt EXCEPT !.heap = c.heap, !.best = c.ref,
                                  !.bestScore = evaluateTeams(c.heap[c.ref]).score]
         IN  IF o.bestScore = 0 THEN [o EXCEPT !.pc = "done"] ELSE LoopHead(o)

\* An adoption that forgets bestScore = newScore.
JudgeForgetsScore(o, heap, test) ==
    LET newScore == evaluateTeams(heap[test]).score
    IN  IF Improves(newScore, o.bestScore)
        THEN [o EXCEPT !.heap = heap, !.best = test,
                       !.noImprovementCount = 0, !.trials = @ + 1, !.adopted = TRUE]
        ELSE [o EXCEPT !.heap = heap, !.noImprovementCount = @ + 1, !.trials = @ + 1,
                       !.adopted = FALSE]

\* The body of either innermost loop once testTeams holds the swapped copy
\* in slot test: evaluate, adopt or count.
Judge(o, heap, test) ==
    LET newScore == evaluateTeams(heap[test]).score
    IN  IF Improves(newScore, o.bestScore)
        THEN [o EXCEPT !.heap = heap, !.best = test, !.bestScore = newScore,
                       !.noImprovementCount = 0, !.trials = @ + 1, !.adopted = TRUE]
        ELSE [o EXCEPT !.heap = heap, !.noImprovementCount = @ + 1, !.trials = @ + 1,
                       !.adopted = FALSE]

\* A single-swap trial that goes on to the next trial after a perfect score.
SingleTrialGoesOn(o) ==
    LET i == o.cur[1]  j == o.cur[2]  p1 == o.cur[3]  p2 == o.cur[4]
        c == CloneTeams(o.heap, o.best, {o.input, o.best})
        swapped == [c.heap EXCEPT ![c.ref] = SwapPlayers(@, i, p1, j, p2)]
        o2 == Judge(o, swapped, c.ref)
        next == SingleCursor(o.heap[o.input], i, j, p1, p2 + 1)
    IN  IF next # <<>> THEN [o2 EXCEPT !.cur = next]
        ELSE AfterSingles(o2)

\* One trial of the single-swap nest and the move to the next trial.
SingleTrial(o) ==
    LET i == o.cur[1]  j == o.cur[2]  p1 == o.cur[3]  p2 == o.cur[4]
        c == CloneTeams(o.heap, o.best, {o.input, o.best})
        swapped == [c.heap EXCEPT ![c.ref] = SwapPlayers(@, i, p1, j, p2)]
        o2 == Judge(o, swapped, c.ref)
        next == SingleCursor(o.heap[o.input], i, j, p1, p2 + 1)
    IN  IF o2.adopted /\ o2.bestScore = 0
        THEN [o2 EXCEPT !.pc = "done", !.cur = <<>>]        \* return bestTeams
        ELSE IF next # <<>> THEN [o2 EXCEPT !.cur = next]
        ELSE AfterSingles(o2)

\* One trial of the double-swap nest and the move to the next trial.
DoubleTrial(o) ==
    LET i == o.cur[1]  j == o.cur[2]  p1 == o.cur[3]  p2 == o.cur[4]
        p3 == o.cur[5]  p4 == o.cur[6]
        c == CloneTeams(o.heap, o.best, {o.input, o.best})
        swapped == [c.heap EXCEPT ![c.ref] =
                       SwapPlayers(SwapPlayers(@, i, p1, j, p3), i, p2, j, p4)]
        o2 == Judge(o, swapped, c.ref)
        next == DoubleCursor(o.heap[o.input], i, j, p1, p2, p3, p4 + 1)
    IN  IF o2.adopted /\ o2.bestScore = 0
        THEN [o2 EXCEPT !.pc = "done", !.cur = <<>>]
        ELSE IF next # <<>> THEN [o2 EXCEPT !.cur = next]
        ELSE NextIteration(o2)

---------------------------------------------------------------------------
(* validatePlayerCount and createTeamDistribution *)

Returned(v) == [error |-> "", value |-> v]
Threw(msg, null) == [error |-> msg, value |-> null]

\* The four checks of validatePlayerCount.
TooFewTeams(T) == T < 2
TooFewPlayers(totalPlayers, T) == totalPlayers < T
NotDivisible(totalPlayers, T) == totalPlayers % T # 0
TooManyCaptainsOrAsMany(captainCount, T) == captainCount >= T
TooManyCaptains(captainCount, T) == captainCount > T

\* The captains counted before the roster is divided.
validatePlayerCountCaptainsFirst(ps, T) ==
    LET totalPlayers == Len(ps)
        captainCount == Len(SelectSeq(ps, IsCaptain))
    IN  IF TooFewTeams(T) THEN Threw(ERR_TEAMS_LT_2, 0)
        ELSE IF TooManyCaptains(captainCount, T) THEN Threw(ERR_CAPTAINS, 0)
        ELSE IF TooFewPlayers(totalPlayers, T) THEN Threw(ERR_NOT_ENOUGH, 0)
        ELSE IF NotDivisible(totalPlayers, T) THEN Threw(ERR_NOT_DIVISIBLE, 0)
        ELSE Returned(totalPlayers \div T)

validatePlayerCount(ps, T) ==
    LET totalPlayers == Len(ps)
        captainCount == Len(SelectSeq(ps, IsCaptain))
    IN  IF TooFewTeams(T) THEN Threw(ERR_TEAMS_LT_2, 0)
        ELSE IF TooFewPlayers(totalPlayers, T) THEN Threw(ERR_NOT_ENOUGH, 0)
        ELSE IF NotDivisible(totalPlayers, T) THEN Threw(ERR_NOT_DIVISIBLE, 0)
        ELSE IF TooManyCaptains(captainCount, T) THEN Threw(ERR_CAPTAINS, 0)
        ELSE Returned(totalPlayers \div T)

TeamDistribution(name, teams, evaluation) ==
    [name |-> name, teams |-> teams, den |-> evaluation.den,
     strengthVariance |-> evaluation.strengthVariance,
     strengthDiff |-> evaluation.strengthDiff,
     tierImbalance |-> evaluation.tierImbalance,
     score |-> evaluation.score]

\* null, where a TeamDistribution is expected.
NoDistribution ==
    [name |-> "", teams |-> <<>>, den |-> 1, strengthVariance |-> 0, strengthDiff |-> 0,
     tierImbalance |-> 0, score |-> 0]

\* The keys of the strategies table and the display names it gives.
strategies ==
    ("round_robin" :> "Round-Robin Distribution") @@
    ("random" :> "Tier-Based Random Distribution") @@
    ("cluster" :> "Cluster-Based Distribution") @@
    ("snake" :> "Pure Snake Draft")

\* strategy.func(players, numTeams, playersPerTeam): the outcomes it can have.
InitialTeams(name, ps, T, playersPerTeam) ==
    CASE name = "round_robin" -> {distributeTeamsRoundRobin(ps, T, playersPerTeam)}
      [] name = "random" -> distributeTeamsRandom(ps, T, playersPerTeam)
      [] name = "cluster" -> {distributeTeamsCluster(ps, T, playersPerTeam)}
      [] name = "snake" -> distributeTeamsSnake(ps, T, playersPerTeam)

\* No strategy skips the optimizer.
SkipsNone(name) == FALSE

\* strategyName === "snake" ? initialTeams : optimizeTeams(initialTeams)
SkipsOptimizer(name) == name = "snake"

\* strategies is an object literal: strategies[strategyName] also finds the
\* properties every object inherits from Object.prototype, and these are
\* truthy.
ObjectPrototypeKeys ==
    {"constructor", "toString", "valueOf", "hasOwnProperty", "isPrototypeOf",
     "propertyIsEnumerable", "toLocaleString", "__proto__"}

\* if (!strategies[strategyName]) throw: the lookup finds nothing.
StrategyMissing(name) == name \notin DOMAIN strategies \cup ObjectPrototypeKeys

\* createTeamDistribution up to the call of optimizeTeams: the strategy lookup
\* and strategy.func(...).  The set of outcomes, one for each way the random
\* draws can fall.  An inherited property has no func: calling it throws.
createTeamDistributionInitial(name, ps, T, playersPerTeam) ==
    IF StrategyMissing(name) THEN {Thrown(ERR_UNKNOWN_STRATEGY)}
    ELSE IF name \notin DOMAIN strategies THEN {Thrown(ERR_TYPE)}
    ELSE InitialTeams(name, ps, T, playersPerTeam)

\* Lines 661-673: evaluate the final teams and package them.
createTeamDistributionResult(name, optimizedTeams) ==
    TeamDistribution(strategies[name], optimizedTeams, evaluateTeams(optimizedTeams))

---------------------------------------------------------------------------
(* app.js: generateTeams with the manual entry form as the input method *)

ERR_APP_TEAMS_LT_2 == "Number of teams must be at least 2"
ERR_APP_CAPTAINS == "Cannot have more captains than teams"
ERR_APP_NO_PLAYERS == "No players provided"

\* getPlayersFromForm on rows that hold valid, distinct names and valid tiers.
getPlayersFromForm(rows, T) ==
    IF Len(SelectSeq(rows, IsCaptain)) > T THEN Threw(ERR_APP_CAPTAINS, <<>>)
    ELSE IF Len(rows) = 0 THEN Threw(ERR_APP_NO_PLAYERS, <<>>)
    ELSE Returned(rows)

\* generateTeams up to the call of createTeamDistribution: the team-count
\* check, the form and validatePlayerCount.  Returns playersPerTeam or the error
\* the catch block shows.
generateTeamsChecks(rows, T) ==
    IF T < 2 THEN Threw(ERR_APP_TEAMS_LT_2, 0)
    ELSE LET form == getPlayersFromForm(rows, T)
         IN  IF form.error # "" THEN Threw(form.error, 0)
             ELSE validatePlayerCount(form.value, T)

---------------------------------------------------------------------------
(* loadPlayersFromCSV, on data rows already split into name, tier (in upper *)
(* case) and captain flag                                                   *)

\* customWeights = null, and a table a caller supplies.
NullWeights == [isNull |-> TRUE, table |-> [t \in {} |-> 0]]
Weights(table) == [isNull |-> FALSE, table |-> table]

\* const tierScores = customWeights || DEFAULT_TIER_SCORES
TierScoresFor(weights) == IF weights.isNull THEN DEFAULT_TIER_SCORES ELSE weights.table

\* The loop over the rows: a row with a name seen before or with a tier that
\* tierScores does not hold is skipped, any other becomes
\* new Player(name, tier, isCaptain).
RECURSIVE LoadRows(_, _, _)
LoadRows(rows, tierScores, loaded) ==
    IF rows = <<>> THEN loaded
    ELSE LET row == Head(rows)
             seenNames == {loaded[k].name : k \in DOMAIN loaded}
         IN  IF row.name \in seenNames \/ row.tier \notin DOMAIN tierScores
             THEN LoadRows(Tail(rows), tierScores, loaded)
             ELSE LoadRows(Tail(rows), tierScores,
                           Append(loaded, Player(row.name, row.tier, row.isCaptain)))

loadPlayersFromCSV(rows, weights) == LoadRows(rows, TierScoresFor(weights), <<>>)

---------------------------------------------------------------------------
(* Inputs *)

TierPool == {InputTiers[k] : k \in 1..NumTiers}

\* Rosters of n players named 1..n.
Rosters(n) ==
    {[k \in 1..n |-> Player(k, f[k][1], f[k][2])] : f \in [1..n -> TierPool \X BOOLEAN]}

\* The rosters a generate request is made on in this model: up to MaxPlayers
\* rows, listed best tier first, captains anywhere.
BestFirst(ps) == \A k \in 1..(Len(ps) - 1) : ps[k].score >= ps[k + 1].score
FormRosters == {ps \in UNION {Rosters(n) : n \in 0..MaxPlayers} : BestFirst(ps)}

\* The rosters of the scenarios the specification of the balancer names.
ScenarioRosters ==
    {[k \in 1..6 |-> Player(k, <<"S", "S", "A", "A", "B", "B">>[k], FALSE)],
     [k \in 1..4 |-> Player(k, <<"S+", "S+", "F", "F">>[k], FALSE)]}

\* The data rows of a CSV: names may repeat.
CsvRows ==
    UNION {[1..n -> [name : 1..MaxCsvRows, tier : TierPool, isCaptain : BOOLEAN]] :
              n \in 0..MaxCsvRows}

\* The customWeights a caller passes: none, a table for every tier of the
\* pool, a table that leaves a tier out.  (A table may not name a tier that
\* DEFAULT_TIER_SCORES lacks: the score of such a player would be undefined.)
CustomWeights ==
    {NullWeights,
     Weights([t \in {"S+", "S", "A"} |-> IF t = "S+" THEN 20 ELSE IF t = "S" THEN 15 ELSE 12]),
     Weights([t \in {"S+", "S"} |-> DEFAULT_TIER_SCORES[t]])}

\* Names that are no key of strategies: one the lookup misses, one it finds
\* on Object.prototype.
OtherStrategyNames == {"unknown_strategy", "constructor"}

\* The rosters the library functions are called on directly: any order.
CallRosters == UNION {Rosters(n) : n \in 0..MaxCallPlayers}

\* Partitions of T * size players named 1..T*size into T teams, no captains.
Partitions(T, size, tiers) ==
    {[t \in 1..T |-> [q \in 1..size |-> Player((t - 1) * size + q, f[(t - 1) * size + q], FALSE)]] :
        f \in [1..(T * size) -> tiers]}

\* Two teams of LargeSize: the first is S+, F, S, S, ..., the second ranges over
\* every line-up of S+ and S.
LargePartitions ==
    {[p EXCEPT ![1] = [q \in 1..LargeSize |->
                          Player(q, IF q = 1 THEN "S+" ELSE IF q = 2 THEN "F" ELSE "S", FALSE)]] :
        p \in Partitions(2, LargeSize, {"S+", "S"})}

\* One player facing an empty team: there is no pair to swap.
LopsidedPartitions == {<<<<Player(1, t, FALSE)>>, <<>>>> : t \in TierPool}

OptInputs ==
    UNION {Partitions(2, size, TierPool) : size \in 1..MaxOptSize}
        \cup LargePartitions \cup LopsidedPartitions

StrategyNames == DOMAIN strategies

NoRet == Returned(0)

---------------------------------------------------------------------------
(* Requests: one call per behaviour.  A call of createTeamDistribution runs  *)
(* the strategy in its first step, optimizeTeams one trial per step, and     *)
(* returns in its last step.                                                 *)

NoInitial == Thrown("")

Init ==
    /\ players = <<>>
    /\ numTeams = 0
    /\ call = ""
    /\ strategyName = ""
    /\ perTeam = 0
    /\ pc = "idle"
    /\ initial = NoInitial
    /\ ret = NoRet
    /\ currentResults = NoDistribution
    /\ opt = IdleOpt
    /\ run = 0
    /\ given = <<>>
    /\ optimizeChecked = FALSE
    /\ customWeights = NullWeights

\* The call has ended: with a thrown error, or with the distribution d, which
\* generateTeams stores in currentResults (the catch block leaves it alone).
Ends(c, r) ==
    /\ pc' = "done"
    /\ ret' = r
    /\ currentResults' = IF c = "generateTeams" /\ r.error = "" THEN r.value
                         ELSE currentResults

\* createTeamDistribution(s, ps, T, ppt) from its first line to the first trial
\* of optimizeTeams, or to its end when it ends before.
Begins(c, ps, T, s, ppt) ==
    /\ call' = c
    /\ players' = ps
    /\ numTeams' = T
    /\ strategyName' = s
    /\ perTeam' = ppt
    /\ UNCHANGED <<run, customWeights>>
    /\ \E i \in createTeamDistributionInitial(s, ps, T, ppt) :
         /\ initial' = (IF s \in DOMAIN strategies THEN i ELSE NoInitial)
         /\ IF i.error # ""
            THEN Ends(c, Threw(i.error, NoDistribution)) /\ UNCHANGED <<opt, given>>
            ELSE IF SkipsOptimizer(s)
            THEN /\ Ends(c, Returned(createTeamDistributionResult(s, i.teams)))
                 /\ UNCHANGED <<opt, given>>
            ELSE LET o == OptStart(i.teams)
                 IN  IF o.pc = "threw"
                     THEN Ends(c, Threw(ERR_TYPE, NoDistribution)) /\ UNCHANGED <<opt, given>>
                     ELSE /\ opt' = o
                          /\ given' = i.teams
                          /\ pc' = "optimizing"
                          /\ UNCHANGED <<ret, currentResults>>

\* The click on "Generate Teams".
GenerateTeams ==
    /\ pc = "idle"
    /\ optimizeChecked' \in BOOLEAN
    /\ \E ps \in FormRosters \cup ScenarioRosters, T \in 0..MaxTeams, s \in StrategyNames :
         LET v == generateTeamsChecks(ps, T)
         IN  IF v.error # ""
             THEN /\ call' = "generateTeams"
                  /\ players' = ps
                  /\ numTeams' = T
                  /\ strategyName' = s
                  /\ Ends("generateTeams", Threw(v.error, NoDistribution))
                  /\ UNCHANGED <<perTeam, initial, opt, run, given, customWeights>>
             ELSE Begins("generateTeams", ps, T, s, v.value)

\* TeamBalancer.createTeamDistribution called on its own, with any arguments.
CallCreateTeamDistribution ==
    /\ pc = "idle"
    /\ \E ps \in CallRosters, T \in 1..MaxTeams, ppt \in 1..MaxCallPlayers,
          s \in StrategyNames \cup OtherStrategyNames :
         Begins("createTeamDistribution", ps, T, s, ppt)
    /\ UNCHANGED optimizeChecked

\* TeamBalancer.validatePlayerCount(players, numTeams) called on its own.
CallValidatePlayerCount ==
    /\ pc = "idle"
    /\ \E ps \in CallRosters \cup FormRosters, T \in 0..MaxTeams :
         /\ call' = "validatePlayerCount"
         /\ players' = ps
         /\ numTeams' = T
         /\ pc' = "done"
         /\ ret' = validatePlayerCount(ps, T)
    /\ UNCHANGED <<strategyName, perTeam, initial, currentResults, opt, run, given,
                   optimizeChecked, customWeights>>

\* TeamBalancer.loadPlayersFromCSV(csvContent, customWeights) called on its own:
\* players holds the rows, the call returns the loaded players.
CallLoadPlayersFromCSV ==
    /\ pc = "idle"
    /\ \E rows \in CsvRows, weights \in CustomWeights :
         /\ call' = "loadPlayersFromCSV"
         /\ players' = rows
         /\ customWeights' = weights
         /\ pc' = "done"
         /\ ret' = Returned(loadPlayersFromCSV(rows, weights))
    /\ UNCHANGED <<numTeams, strategyName, perTeam, initial, currentResults, opt, run, given,
                   optimizeChecked>>

OptFrame == UNCHANGED <<players, numTeams, call, strategyName, perTeam, pc, initial, ret,
                        currentResults, given, run, optimizeChecked, customWeights>>

\* One trial of the single-swap nest of the running optimizeTeams.
OptSingleTrial ==
    /\ pc = "optimizing"
    /\ opt.pc = "single"
    /\ opt' = SingleTrial(opt)
    /\ OptFrame

\* One trial of its double-swap nest.
OptDoubleTrial ==
    /\ pc = "optimizing"
    /\ opt.pc = "double"
    /\ opt' = DoubleTrial(opt)
    /\ OptFrame

\* optimizeTeams has returned bestTeams: createTeamDistribution evaluates and
\* returns, and generateTeams stores the distribution.
ReturnDistribution ==
    /\ pc = "optimizing"
    /\ call \in {"generateTeams", "createTeamDistribution"}
    /\ opt.pc = "done"
    /\ Ends(call, Returned(createTeamDistributionResult(strategyName, opt.heap[opt.best])))
    /\ UNCHANGED <<players, numTeams, call, strategyName, perTeam, initial, opt, run, given,
                   optimizeChecked, customWeights>>

Next ==
    \/ CallValidatePlayerCount
    \/ CallLoadPlayersFromCSV
    \/ GenerateTeams
    \/ CallCreateTeamDistribution
    \/ OptSingleTrial
    \/ OptDoubleTrial
    \/ ReturnDistribution

Spec == Init /\ [][Next]_vars

---------------------------------------------------------------------------
(* optimizeTeams alone, called MaxRuns times in a row *)

InitOpt ==
    /\ given \in OptInputs
    /\ opt = OptStart(given)
    /\ run = 1
    /\ call = "optimizeTeams"
    /\ pc = "optimizing"
    /\ players = <<>>
    /\ numTeams = 0
    /\ strategyName = ""
    /\ perTeam = 0
    /\ initial = NoInitial
    /\ ret = NoRet
    /\ currentResults = NoDistribution
    /\ optimizeChecked = FALSE
    /\ customWeights = NullWeights

\* optimizeTeams(optimizeTeams(p)): the next call takes the returned array.
OptAgain ==
    /\ call = "optimizeTeams"
    /\ opt.pc = "done"
    /\ run < MaxRuns
    /\ run' = run + 1
    /\ given' = opt.heap[opt.best]
    /\ opt' = OptStart(opt.heap[opt.best])
    /\ UNCHANGED <<players, numTeams, call, strategyName, perTeam, pc, initial, ret,
                   currentResults, optimizeChecked, customWeights>>

NextOpt == OptSingleTrial \/ OptDoubleTrial \/ OptAgain

SpecOpt == InitOpt /\ [][NextOpt]_vars

\* optimizeTeams is in one of its swap loops: a trial is its next step.
Running == pc = "optimizing" /\ opt.pc \in {"single", "double"}

\* optimizeTeams is synchronous code: once called, it runs its next trial.
\* This is weak fairness of the trials with their enabling condition, Running,
\* written out.
SpecOptRuns ==
    SpecOpt /\ ([]<>(~Running) \/ []<><<OptSingleTrial \/ OptDoubleTrial>>_vars)

---------------------------------------------------------------------------
(* The strategies alone: one call of distributeTeamsRoundRobin,             *)
(* distributeTeamsCluster, distributeTeamsRandom or distributeTeamsSnake,   *)
(* on rosters long enough for the dealing to change direction.  initial     *)
(* holds what the call hands back.                                          *)

\* The rosters the deterministic strategies are called on.
DealRosters ==
    UNION {{[k \in 1..n |-> Player(k, InputTiers[f[k][1]], f[k][2])] :
               f \in [1..n -> (1..DealTiers) \X BOOLEAN]} : n \in 0..MaxDealPlayers}

\* The rosters the shuffling strategies are called on: few players to a tier,
\* so that the orders a shuffle can leave stay few.
ShuffledRosters ==
    {ps \in DealRosters :
        \A t \in DOMAIN DEFAULT_TIER_SCORES : Len(TierGroup(SelectSeq(ps, NotCaptain), t)) <= GroupLimit}

\* strategy(players, numTeams, playersPerTeam) called and returned or thrown.
Deals(c, ps, T, ppt, outcome) ==
    /\ call' = c
    /\ players' = ps
    /\ numTeams' = T
    /\ perTeam' = ppt
    /\ initial' = outcome
    /\ pc' = "done"
    /\ UNCHANGED <<strategyName, ret, currentResults, opt, given, run, optimizeChecked,
                   customWeights>>

CallDistributeTeamsRoundRobin ==
    /\ pc = "idle"
    /\ \E ps \in DealRosters, T \in 1..MaxTeams, ppt \in 1..MaxCallPlayers :
         Deals("distributeTeamsRoundRobin", ps, T, ppt, distributeTeamsRoundRobin(ps, T, ppt))

CallDistributeTeamsCluster ==
    /\ pc = "idle"
    /\ \E ps \in DealRosters, T \in 1..MaxTeams, ppt \in 1..MaxCallPlayers :
         Deals("distributeTeamsCluster", ps, T, ppt, distributeTeamsCluster(ps, T, ppt))

CallDistributeTeamsRandom ==
    /\ pc = "idle"
    /\ \E ps \in ShuffledRosters, T \in 1..MaxTeams, ppt \in 1..MaxCallPlayers :
         \E outcome \in distributeTeamsRandom(ps, T, ppt) :
             Deals("distributeTeamsRandom", ps, T, ppt, outcome)

CallDistributeTeamsSnake ==
    /\ pc = "idle"
    /\ \E ps \in ShuffledRosters, T \in 1..MaxTeams, ppt \in 1..MaxCallPlayers :
         \E outcome \in distributeTeamsSnake(ps, T, ppt) :
             Deals("distributeTeamsSnake", ps, T, ppt, outcome)

NextDeal ==
    \/ CallDistributeTeamsRoundRobin
    \/ CallDistributeTeamsCluster
    \/ CallDistributeTeamsRandom
    \/ CallDistributeTeamsSnake

SpecDeal == Init /\ [][NextDeal]_vars

---------------------------------------------------------------------------
(* Properties *)

\* A call of createTeamDistribution, direct or through generateTeams, whose
\* roster and team count validatePlayerCount accepts and whose playersPerTeam
\* is the value it returns.
ValidCall ==
    /\ call \in {"generateTeams", "createTeamDistribution"}
    /\ validatePlayerCount(players, numTeams) = Returned(perTeam)

\* Such a call has returned a distribution.
Distributed == pc = "done" /\ ValidCall /\ ret.error = ""

OptimizedStrategies == {"round_robin", "random", "cluster"}

CaptainsIn(team) == Cardinality({q \in DOMAIN team : team[q].isCaptain})

\* C1: for a roster and team count that validatePlayerCount accepts and each of
\* round_robin, random and cluster, no team of the partition that
\* createTeamDistribution returns holds more than one captain.
C1_OneCaptainPerTeam ==
    (Distributed /\ strategyName \in OptimizedStrategies)
        => \A k \in DOMAIN ret.value.teams : CaptainsIn(ret.value.teams[k]) <= 1

\* The places <<team, position>> of a partition where the player named n sits.
PlacesOf(teams, n) ==
    {<<k, q>> \in (DOMAIN teams) \X (1..MaxPlayers) :
        q \in DOMAIN teams[k] /\ teams[k][q].name = n}

\* C2: for a roster and team count that validatePlayerCount accepts and each of
\* the four strategies, a partition that createTeamDistribution returns has
\* numTeams teams, each of rosterSize / numTeams players, and every player of
\* the roster sits in exactly one place of it.
C2_ReturnedPartitionIsValid ==
    Distributed =>
        /\ Len(ret.value.teams) = numTeams
        /\ \A k \in DOMAIN ret.value.teams :
             Len(ret.value.teams[k]) * numTeams = Len(players)
        /\ \A p \in DOMAIN players :
             Cardinality(PlacesOf(ret.value.teams, players[p].name)) = 1

\* The optimizer has moved players and the result is returned.
C2_Witness ==
    /\ Distributed
    /\ Len(players) = MaxPlayers
    /\ ret.value.teams # initial.teams

\* C3: on a valid input the random strategy returns a valid partition; when the
\* tier-by-tier assignment leaves the sizes uneven, a team without any player
\* included, it returns the round-robin partition instead of failing.
C3_RandomAlwaysReturns ==
    (pc = "done" /\ ValidCall /\ strategyName = "random")
        => /\ initial.error = ""
           /\ SizesOk(initial.teams, perTeam)

\* C4: the score of optimizeTeams(p) is at most the score of p.
C4_NeverWorse ==
    (call = "optimizeTeams" /\ opt.pc = "done")
        => evaluateTeams(opt.heap[opt.best]).score <= evaluateTeams(given).score

\* optimizeTeams has adopted swaps, has then run into noImprovementLimit, and
\* has returned a partition of a strictly lower score.
C4_Witness ==
    /\ call = "optimizeTeams"
    /\ opt.pc = "done"
    /\ opt.noImprovementCount >= noImprovementLimit
    /\ evaluateTeams(opt.heap[opt.best]).score < evaluateTeams(given).score

\* C5: optimizeTeams run on the result of optimizeTeams returns a partition of
\* exactly the same score: the second run finds no improving swap.
C5_IdempotentInScore ==
    (call = "optimizeTeams" /\ run = 2 /\ opt.pc = "done")
        => evaluateTeams(opt.heap[opt.best]).score = evaluateTeams(given).score

\* The nine recognised tiers, the count of a tier in a team and the sum, over
\* the nine tiers, of the squared deviations of the per-team counts from their
\* mean, as a numerator over T^3.
TierCount(team, tier) == Cardinality({q \in DOMAIN team : team[q].tier = tier})

NineTierImbalance(teams) ==
    LET T == Len(teams)
        Total(tier) == SumSeq([k \in 1..T |-> TierCount(teams[k], tier)])
    IN  T * SumSeq([n \in DOMAIN DEFAULT_TIER_ORDER |->
                SumSeq([k \in 1..T |->
                    (T * TierCount(teams[k], DEFAULT_TIER_ORDER[n])
                        - Total(DEFAULT_TIER_ORDER[n])) ^ 2])])

\* C6: the tierImbalance of evaluateTeams is the sum over all nine tiers
\* (S+, S, S/A, A, A/B, B, C, D, F) of the squared deviations of the per-team
\* counts of the tier from their mean.
C6_AllNineTiersCounted ==
    Distributed => ret.value.tierImbalance = NineTierImbalance(ret.value.teams)

\* The per-team sums of member scores, from the tier table.
StrengthOf(team) ==
    SumSeq([n \in DOMAIN DEFAULT_TIER_ORDER |->
        TierCount(team, DEFAULT_TIER_ORDER[n]) * DEFAULT_TIER_SCORES[DEFAULT_TIER_ORDER[n]]])

\* C7: strengthDiff is the largest per-team sum minus the smallest,
\* strengthVariance the population variance of the per-team sums, and
\* score = 2 * strengthVariance + tierImbalance + 10 * strengthDiff.
\* (All four are numerators over den = T^3; the population variance
\* E[s^2] - E[s]^2 is (T^2 * sum s^2 - T * (sum s)^2) / T^3.)
C7_MetricsAsDefined ==
    Distributed =>
        LET d == ret.value
            T == Len(d.teams)
            s == [k \in 1..T |-> StrengthOf(d.teams[k])]
        IN  /\ d.den = T ^ 3
            /\ \E a, b \in 1..T :
                 /\ d.strengthDiff = d.den * (s[a] - s[b])
                 /\ \A k \in 1..T : s[b] <= s[k] /\ s[k] <= s[a]
            /\ d.strengthVariance =
                 T * T * SumSeq([k \in 1..T |-> s[k] * s[k]]) - T * SumSeq(s) * SumSeq(s)
            /\ d.score = 2 * d.strengthVariance + d.tierImbalance + 10 * d.strengthDiff

\* A returned distribution none of whose metrics is zero.
C7_Witness ==
    /\ Distributed
    /\ ret.value.strengthVariance > 0
    /\ ret.value.tierImbalance > 0
    /\ ret.value.strengthDiff > 0
    /\ ret.value.strengthVariance # ret.value.strengthDiff

\* C8: optimizeTeams never modifies the partition it is given, and every trial
\* swap and adopted improvement is made on a copy: the caller's array holds
\* the given players at the given places throughout and at the return, and
\* bestTeams never is the caller's array.
C8_InputUntouched ==
    (call = "optimizeTeams" /\ opt.pc \in {"single", "double", "done"})
        => /\ opt.heap[opt.input] = given
           /\ opt.best # opt.input

\* optimizeTeams has returned another line-up than the one it was given, after
\* more than noImprovementLimit trials.
C8_Witness ==
    /\ call = "optimizeTeams"
    /\ opt.pc = "done"
    /\ opt.trials > noImprovementLimit
    /\ opt.heap[opt.best] # given
    /\ opt.heap[opt.input] = given

\* The error kinds and the messages that carry them.
ErrorKind(msg) ==
    CASE msg \in {ERR_TEAMS_LT_2, ERR_APP_TEAMS_LT_2} -> "InvalidConfiguration"
      [] msg \in {ERR_NOT_ENOUGH, ERR_NOT_DIVISIBLE, ERR_APP_NO_PLAYERS} -> "InfeasiblePartition"
      [] msg \in {ERR_CAPTAINS, ERR_APP_CAPTAINS} -> "CaptainOverflow"
      [] OTHER -> "other"

Acceptable(ps, T) ==
    /\ T >= 2
    /\ Len(ps) >= T
    /\ Len(ps) % T = 0
    /\ CaptainsIn(ps) <= T

\* The error kind fits the input: a kind is raised only for an input that
\* breaks the rule it stands for.
KindFits(kind, ps, T) ==
    CASE kind = "InvalidConfiguration" -> T < 2
      [] kind = "InfeasiblePartition" -> Len(ps) < T \/ Len(ps) % T # 0
      [] kind = "CaptainOverflow" -> CaptainsIn(ps) > T
      [] OTHER -> FALSE

\* C9: validatePlayerCount returns rosterSize / numTeams exactly when
\* numTeams >= 2, rosterSize >= numTeams, rosterSize is divisible by numTeams
\* and captainCount <= numTeams; otherwise it raises an error, and a generate
\* request stores no distribution; the error is InvalidConfiguration for
\* numTeams < 2, InfeasiblePartition for a roster too small or not divisible,
\* CaptainOverflow for more captains than teams.
C9_ValidationContract ==
    /\ (pc = "done" /\ call = "validatePlayerCount") =>
         IF Acceptable(players, numTeams)
         THEN ret = Returned(Len(players) \div numTeams)
         ELSE ret.error # "" /\ KindFits(ErrorKind(ret.error), players, numTeams)
    /\ (pc = "done" /\ call = "generateTeams" /\ ~Acceptable(players, numTeams)) =>
         /\ ret.error # ""
         /\ KindFits(ErrorKind(ret.error), players, numTeams)
         /\ currentResults = NoDistribution
    /\ (call = "generateTeams" /\ ~Acceptable(players, numTeams)) => initial = NoInitial

\* validatePlayerCount has refused, for its captains alone, a roster that it
\* could divide.
C9_Witness ==
    /\ pc = "done"
    /\ call = "validatePlayerCount"
    /\ numTeams = 2
    /\ Len(players) = 4
    /\ CaptainsIn(players) = 3
    /\ ErrorKind(ret.error) = "CaptainOverflow"

\* C10: createTeamDistribution, called with more captains than numTeams, ends
\* with the CaptainOverflow error and runs no strategy on the roster.
C10_OrchestratorChecksCaptains ==
    (pc = "done" /\ call = "createTeamDistribution" /\ CaptainsIn(players) > numTeams)
        => /\ ErrorKind(ret.error) = "CaptainOverflow"
           /\ initial = NoInitial

\* C11: for every strategy name other than round_robin, random, cluster and
\* snake, createTeamDistribution raises the UnknownStrategy error before any
\* strategy or the optimizer runs, and returns no distribution.
C11_UnknownStrategyRefused ==
    (pc = "done" /\ call = "createTeamDistribution" /\ strategyName \notin DOMAIN strategies)
        => /\ ret = Threw(ERR_UNKNOWN_STRATEGY, NoDistribution)
           /\ initial = NoInitial
           /\ opt = IdleOpt

\* The roster [S, S, A, A, B, B] asked to be split into three teams.
SixPlayerScenario ==
    /\ pc = "done"
    /\ call \in {"generateTeams", "createTeamDistribution"}
    /\ players = [k \in 1..6 |-> Player(k, <<"S", "S", "A", "A", "B", "B">>[k], FALSE)]
    /\ numTeams = 3

\* C12 as stated: for the roster [S, S, A, A, B, B], numTeams = 3 and no
\* captains the optimized partition createTeamDistribution returns has
\* strengthDiff = 0.
C12_SixPlayersDiffZero ==
    (SixPlayerScenario /\ strategyName \in OptimizedStrategies /\ ret.error = "")
        => ret.value.strengthDiff = 0

\* C12 amended: the scores of the roster sum to 46, which three teams cannot
\* share evenly; round_robin and cluster return a partition whose team sums
\* are 15, 15 and 16 in some order, so strengthDiff = 1.
C12_SixPlayersDiffOne ==
    (SixPlayerScenario /\ strategyName \in {"round_robin", "cluster"})
        => /\ ret.error = ""
           /\ ret.value.strengthDiff = ret.value.den * 1
           /\ \E f \in [1..3 -> {15, 16}] :
                /\ f = [k \in 1..3 |-> StrengthOf(ret.value.teams[k])]
                /\ Cardinality({k \in 1..3 : f[k] = 16}) = 1

\* Round-robin on the roster, the optimizer having improved on the 18, 15, 13
\* the strategy built.
C12_Witness ==
    /\ SixPlayerScenario
    /\ strategyName = "round_robin"
    /\ ret.error = ""
    /\ ret.value.teams # initial.teams
    /\ ret.value.strengthDiff = ret.value.den

\* C13: for the roster [A: S+, B: S+, C: F, D: F], numTeams = 2, no captains,
\* createTeamDistribution with round_robin returns two teams of size 2 with
\* strengthDiff = 0 and score = 0 (the round-robin partition itself, which
\* optimizeTeams returns at once).
C13_TwoStarsTwoFs ==
    (/\ pc = "done"
     /\ call \in {"generateTeams", "createTeamDistribution"}
     /\ players = [k \in 1..4 |-> Player(k, <<"S+", "S+", "F", "F">>[k], FALSE)]
     /\ numTeams = 2
     /\ perTeam = 2
     /\ strategyName = "round_robin")
        => /\ ret.error = ""
           /\ Len(ret.value.teams) = 2
           /\ \A k \in 1..2 : Len(ret.value.teams[k]) = 2
           /\ ret.value.strengthDiff = 0
           /\ ret.value.score = 0
           /\ StrengthOf(ret.value.teams[1]) = StrengthOf(ret.value.teams[2])
           /\ ret.value.teams = initial.teams

C13_Witness ==
    /\ pc = "done"
    /\ call = "generateTeams"
    /\ players = [k \in 1..4 |-> Player(k, <<"S+", "S+", "F", "F">>[k], FALSE)]
    /\ numTeams = 2
    /\ strategyName = "round_robin"
    /\ ret.error = ""
    /\ ret.value.teams = <<<<players[1], players[3]>>, <<players[2], players[4]>>>>

\* C14: the "Optimize results?" checkbox controls optimization: unchecked, a
\* generate request with round_robin, random or cluster returns the strategy's
\* initial partition and the optimizer does not run.
C14_CheckboxControlsOptimizer ==
    (/\ pc = "done"
     /\ call = "generateTeams"
     /\ ret.error = ""
     /\ strategyName \in OptimizedStrategies
     /\ ~optimizeChecked)
        => /\ ret.value.teams = initial.teams
           /\ opt = IdleOpt

\* C15: the snake strategy is never optimized: on a valid input the partition
\* of the distribution createTeamDistribution('snake', ...) returns is the one
\* the snake strategy built, and optimizeTeams was not called.
C15_SnakeNotOptimized ==
    (Distributed /\ strategyName = "snake")
        => /\ ret.value.teams = initial.teams
           /\ opt = IdleOpt

\* A snake partition of four players that is returned although it is not
\* perfectly balanced.
C15_Witness ==
    /\ Distributed
    /\ strategyName = "snake"
    /\ Len(players) = MaxPlayers
    /\ ret.value.score > 0
    /\ ret.value.teams = initial.teams

\* C16: with a custom tier-to-score table handed to loadPlayersFromCSV, the
\* score of every loaded player is the table's value for the player's tier.
C16_CustomWeightsUsed ==
    (pc = "done" /\ call = "loadPlayersFromCSV" /\ ~customWeights.isNull)
        => \A k \in DOMAIN ret.value :
             ret.value[k].score = customWeights.table[ret.value[k].tier]

\* C17: once 100 consecutive trials have failed to improve the best score,
\* optimizeTeams evaluates no further trial, neither a single nor a double
\* swap: from a state of the loops in which noImprovementCount has reached
\* noImprovementLimit no step evaluates a trial.
C17_NoTrialPastLimit ==
    [][(/\ opt.pc \in {"single", "double"}
        /\ opt.noImprovementCount >= noImprovementLimit)
           => opt'.trials = opt.trials]_vars

\* The captains of the roster of the call, in roster order.
RosterCaptains == SelectSeq(players, IsCaptain)

\* C18: in the partition a strategy builds for a roster with c <= numTeams
\* captains, the k-th captain in roster order is the first member of team
\* k - 1 (teams[k] here), for every k in 1..c.
C18_CaptainsLeadFirstTeams ==
    (/\ call \in {"generateTeams", "createTeamDistribution"}
     /\ strategyName \in DOMAIN strategies
     /\ initial.error = ""
     /\ Len(initial.teams) = numTeams
     /\ Len(RosterCaptains) <= numTeams)
        => \A k \in 1..Len(RosterCaptains) :
             /\ initial.teams[k] # <<>>
             /\ initial.teams[k][1] = RosterCaptains[k]

\* The random strategy on a roster that does not start with a captain, its
\* own teams given up for the round-robin ones: both captains lead a team.
C18_Witness ==
    /\ call \in {"generateTeams", "createTeamDistribution"}
    /\ strategyName = "random"
    /\ initial.error = ""
    /\ initial.attempt # <<>>
    /\ numTeams = 2
    /\ Len(players) = 4
    /\ Len(RosterCaptains) = 2
    /\ ~players[1].isCaptain
    /\ initial.teams[1][1] = RosterCaptains[1]
    /\ initial.teams[2][1] = RosterCaptains[2]

\* In a sequence of pushes, no team is pushed to a second time while one of
\* the T teams has not been pushed to.
FirstBeforeSecond(picks, T) ==
    \A i \in DOMAIN picks :
        (\E j \in 1..(i - 1) : picks[j] = picks[i])
            => \A t \in 0..(T - 1) : \E j \in 1..(i - 1) : picks[j] = t

\* C19: in each of the four strategies, on a roster with fewer captains than
\* teams, every team without a captain receives its first member before any
\* team receives a second member.
C19_EmptyTeamsFilledFirst ==
    (/\ pc # "idle"
     /\ ValidCall
     /\ strategyName \in DOMAIN strategies
     /\ Len(RosterCaptains) < numTeams)
        => /\ FirstBeforeSecond(initial.picks, numTeams)
           /\ FirstBeforeSecond(initial.attempt, numTeams)

\* The reference C20 describes, written position by position.
\* The place of non-captain i of the roster in the dealing order: behind every
\* non-captain with a higher score and every earlier one with the same score.
DealRank(ps, i) ==
    1 + Cardinality({j \in DOMAIN ps :
                        /\ ~ps[j].isCaptain
                        /\ \/ ps[j].score > ps[i].score
                           \/ ps[j].score = ps[i].score /\ j < i})

\* The non-captain dealt r-th.
Dealt(ps, r) == ps[CHOOSE i \in DOMAIN ps : ~ps[i].isCaptain /\ DealRank(ps, i) = r]

\* Member m of team t (both counted from 1) with c captains and T teams: the
\* first member is captain t or, on a team without captain, the (t - c)-th of
\* the dealing order; member m > 1 arrives in round m - 1, after the T - c
\* first members and the T players of each earlier round, as the t-th of the
\* round when the round number is odd and as the (T + 1 - t)-th when it is
\* even.
ReferenceMember(ps, T, t, m) ==
    LET c == Len(SelectSeq(ps, IsCaptain))
        round == m - 1
        turn == IF round % 2 = 1 THEN t ELSE T + 1 - t
    IN  IF m = 1
        THEN IF t <= c THEN SelectSeq(ps, IsCaptain)[t] ELSE Dealt(ps, t - c)
        ELSE Dealt(ps, (T - c) + (round - 1) * T + turn)

ReferenceRoundRobin(ps, T, playersPerTeam) ==
    [t \in 1..T |-> [m \in 1..playersPerTeam |-> ReferenceMember(ps, T, t, m)]]

\* A roster the strategies are made for: as many players as the teams hold,
\* no more captains than teams.
ValidDeal ==
    /\ Len(players) = numTeams * perTeam
    /\ Len(RosterCaptains) <= numTeams

\* C20: on such a roster the partition distributeTeamsRoundRobin builds is the
\* reference: non-captains in descending score, ties in roster order; the
\* first ones to the teams without captain in index order; then round r deals
\* one player to each team, teams 0..N-1 for odd r, N-1..0 for even r.
C20_RoundRobinIsReference ==
    (pc = "done" /\ call = "distributeTeamsRoundRobin" /\ ValidDeal)
        => /\ initial.error = ""
           /\ initial.teams = ReferenceRoundRobin(players, numTeams, perTeam)

\* Two teams of three with one captain and scores that tie: the second round
\* has run backwards.
C20_Witness ==
    /\ pc = "done"
    /\ call = "distributeTeamsRoundRobin"
    /\ ValidDeal
    /\ numTeams = 2
    /\ perTeam = 3
    /\ Len(RosterCaptains) = 1
    /\ \E i, j \in DOMAIN players :
         i < j /\ ~players[i].isCaptain /\ ~players[j].isCaptain
               /\ players[i].score < players[j].score
    /\ initial.picks = <<0, 1, 0, 1, 1, 0>>
    /\ initial.teams = ReferenceRoundRobin(players, numTeams, perTeam)

\* A call of distributeTeamsSnake on a roster made for it, two teams or more,
\* that has returned its teams.
SnakeDealt ==
    /\ pc = "done"
    /\ call = "distributeTeamsSnake"
    /\ ValidDeal
    /\ numTeams >= 2
    /\ initial.error = ""

\* The pushes of draft round r, r = 1 being the first round after the captains
\* and the first members of the teams without captain (numTeams pushes).
RoundPicks(r) == SubSeq(initial.picks, numTeams * r + 1, numTeams * r + numTeams)

\* Team N-1 down to team 0, and team 0 up to team N-1.
Backward == [k \in 1..numTeams |-> numTeams - k]
Onward == [k \in 1..numTeams |-> k - 1]

\* C21 as stated: the snake strategy drafts backward exactly in the rounds
\* whose number is even, the first round after the fill being round 1.
C21_BackwardInEvenRounds ==
    SnakeDealt => \A r \in 1..(perTeam - 1) : (RoundPicks(r) = Backward) <=> (r % 2 = 0)

\* C21 amended: the snake strategy drafts backward exactly in the rounds whose
\* number is odd (roundNum % 2 === 0 selects the forward order), and forward
\* in the even ones.
C21_BackwardInOddRounds ==
    SnakeDealt => \A r \in 1..(perTeam - 1) :
                     /\ (RoundPicks(r) = Backward) <=> (r % 2 = 1)
                     /\ (RoundPicks(r) = Onward) <=> (r % 2 = 0)

\* Two teams of three led by captains: round 1 ran backward, round 2 forward.
C21_Witness ==
    /\ SnakeDealt
    /\ numTeams = 2
    /\ perTeam = 3
    /\ Len(RosterCaptains) = 2
    /\ initial.picks = <<0, 1, 1, 0, 0, 1>>

\* C22: in the snake strategy the first round after the fill runs backward
\* (team N-1 first, team 0 last) and every following round runs in the
\* direction opposite to the round before it.
C22_BackwardFirstThenAlternating ==
    SnakeDealt =>
        /\ perTeam >= 2 => RoundPicks(1) = Backward
        /\ \A r \in 1..(perTeam - 2) :
             /\ RoundPicks(r) \in {Backward, Onward}
             /\ RoundPicks(r + 1) \in {Backward, Onward}
             /\ RoundPicks(r + 1) # RoundPicks(r)

\* Two teams of three, the captains not at the head of the roster: the draft
\* starts at team 1 and turns round in the second round.
C22_Witness ==
    /\ SnakeDealt
    /\ numTeams = 2
    /\ perTeam = 3
    /\ ~players[1].isCaptain
    /\ RoundPicks(1) = <<1, 0>>
    /\ RoundPicks(2) = <<0, 1>>

\* A strategy called alone has come to its end.
StrategyCalls ==
    {"distributeTeamsRoundRobin", "distributeTeamsCluster", "distributeTeamsRandom",
     "distributeTeamsSnake"}

\* C23: for any roster with no more captains than teams, any numTeams and any
\* playersPerTeam, a strategy either returns teams that all hold
\* playersPerTeam members or ends by raising the consistency error
\* ("Failed to distribute players evenly"); it does nothing else.
C23_EvenTeamsOrConsistencyError ==
    (pc = "done" /\ call \in StrategyCalls /\ Len(RosterCaptains) <= numTeams)
        => /\ initial.error \in {"", ERR_UNEVEN, ERR_UNEVEN_CLUSTER}
           /\ initial.error = "" => SizesOk(initial.teams, perTeam)

\* C24: optimizeTeams stops as soon as the best score is exactly 0.  A best
\* score of 0 is only ever seen in a call that has returned, the partition it
\* returns scores 0, and when the input itself scores 0 no trial was
\* evaluated.
C24_StopsAtPerfectScore ==
    (call = "optimizeTeams" /\ opt.bestScore = 0)
        => /\ opt.pc = "done"
           /\ evaluateTeams(opt.heap[opt.best]).score = 0
           /\ evaluateTeams(given).score = 0 => opt.trials = 0

\* A swap that was adopted brought the score to 0 while trials of the pass
\* were still to come.
C24_Witness ==
    /\ call = "optimizeTeams"
    /\ opt.pc = "done"
    /\ opt.bestScore = 0
    /\ opt.adopted
    /\ opt.trials > 0
    /\ opt.trials < Len(given[1]) * Len(given[2])
    /\ evaluateTeams(given).score > 0

\* C25: optimizeTeams terminates on every partition, and its outer loop makes
\* at most maxIterations (1000) iterations.
C25_Terminates ==
    /\ [](call = "optimizeTeams" => opt.iteration <= maxIterations)
    /\ [](call = "optimizeTeams" => <>(opt.pc = "done"))

\* It has returned after maxIterations iterations without a trial, or after
\* noImprovementLimit failed trials.
C25_Witness ==
    /\ call = "optimizeTeams"
    /\ opt.pc = "done"
    /\ run = MaxRuns
    /\ \/ opt.iteration = maxIterations /\ opt.bestScore > 0
       \/ opt.noImprovementCount >= noImprovementLimit

\* The partition the trial at the cursor of o is to score: the best partition
\* with the swap, or the two swaps, of the cursor applied.
TrialOf(o) ==
    LET base == o.heap[o.best]
        i == o.cur[1]
        j == o.cur[2]
    IN  IF o.pc = "single"
        THEN SwapPlayers(base, i, o.cur[3], j, o.cur[4])
        ELSE SwapPlayers(SwapPlayers(base, i, o.cur[3], j, o.cur[5]), i, o.cur[4], j, o.cur[6])

\* C26: a trial is adopted if and only if its score is strictly lower than the
\* best score.  Adopted, it is the best partition from then on (the base of
\* the trials that follow), its score is the best score and the
\* no-improvement counter is 0; rejected, the best partition and score stay
\* and the counter grows by one.
C26_AdoptedIffStrictlyLower ==
    [][(call = "optimizeTeams" /\ Running /\ run' = run)
          => LET newScore == evaluateTeams(TrialOf(opt)).score
             IN  /\ opt'.trials = opt.trials + 1
                 /\ opt'.adopted <=> newScore < opt.bestScore
                 /\ IF newScore < opt.bestScore
                    THEN /\ opt'.heap[opt'.best] = TrialOf(opt)
                         /\ opt'.bestScore = newScore
                         /\ opt'.noImprovementCount = 0
                    ELSE /\ opt'.heap[opt'.best] = opt.heap[opt.best]
                         /\ opt'.bestScore = opt.bestScore
                         /\ opt'.noImprovementCount = opt.noImprovementCount + 1]_vars

\* A trial has just been adopted, after rejected ones, and the loops go on
\* from it.
C26_Witness ==
    /\ call = "optimizeTeams"
    /\ Running
    /\ opt.adopted
    /\ opt.trials > 1
    /\ opt.noImprovementCount = 0
    /\ opt.heap[opt.best] # given
    /\ opt.bestScore = evaluateTeams(opt.heap[opt.best]).score

\* C27: double-swap trials are made only in the outer iterations whose index
\* is a multiple of 10, after the single-swap pass of that iteration and as
\* its last trials; a double-swap trial exchanges position p1 of team i with
\* p3 of team j and p2 of team i with p4 of team j (i < j, p1 < p2, p3 < p4)
\* and is scored once, as one trial.
C27_DoubleSwapsEveryTenth ==
    [][(call = "optimizeTeams" /\ run' = run)
          => /\ opt'.pc = "double"
                  => /\ opt'.iteration % 10 = 0
                     /\ opt'.cur[1] < opt'.cur[2]
                     /\ opt'.cur[3] < opt'.cur[4]
                     /\ opt'.cur[5] < opt'.cur[6]
             /\ (opt.pc = "single" /\ opt'.pc = "double")
                  => /\ opt'.iteration = opt.iteration
                     /\ SingleCursor(given, opt.cur[1], opt.cur[2], opt.cur[3],
                                     opt.cur[4] + 1) = <<>>
             /\ (opt.pc = "double" /\ opt'.pc = "single")
                  => opt'.iteration = opt.iteration + 1
             /\ opt.pc = "double"
                  => /\ opt'.trials = opt.trials + 1
                     /\ opt'.adopted =>
                          opt'.heap[opt'.best] =
                              SwapPlayers(SwapPlayers(opt.heap[opt.best], opt.cur[1], opt.cur[3],
                                                      opt.cur[2], opt.cur[5]),
                                          opt.cur[1], opt.cur[4], opt.cur[2], opt.cur[6])]_vars

\* The double swap of iteration 10 is the next trial, forty-five trials after
\* the call.
C27_Witness ==
    /\ call = "optimizeTeams"
    /\ opt.pc = "double"
    /\ opt.iteration = 10
    /\ opt.cur = <<0, 1, 0, 1, 0, 1>>
    /\ opt.trials = 45

\* C28: on a valid input (as many players as the teams hold, no more captains
\* than teams) distributeTeamsRoundRobin and distributeTeamsCluster build the
\* same teams, the same members at the same positions.  createTeamDistribution
\* hands the teams of either to the same optimizeTeams and evaluateTeams.
C28_RoundRobinAndClusterAgree ==
    (/\ pc = "done"
     /\ call \in {"distributeTeamsRoundRobin", "distributeTeamsCluster"}
     /\ ValidDeal)
        => /\ initial.error = ""
           /\ initial.teams = distributeTeamsRoundRobin(players, numTeams, perTeam).teams
           /\ initial.teams = distributeTeamsCluster(players, numTeams, perTeam).teams

\* The cluster strategy on two teams of three, one captain, scores that
\* differ: the second cluster went to the teams backward.
C28_Witness ==
    /\ pc = "done"
    /\ call = "distributeTeamsCluster"
    /\ ValidDeal
    /\ numTeams = 2
    /\ perTeam = 3
    /\ Len(RosterCaptains) = 1
    /\ \E i, j \in DOMAIN players : players[i].score # players[j].score
    /\ initial.picks = <<0, 1, 0, 1, 1, 0>>
    /\ initial.teams = distributeTeamsRoundRobin(players, numTeams, perTeam).teams

\* C29: at every step of optimizeTeams the best partition has as many teams
\* as the input, teams of the same sizes, and exactly the players of the
\* input, each once; and bestScore is evaluateTeams of the best partition.
C29_BestPartitionInvariant ==
    (call = "optimizeTeams" /\ opt.pc \in {"single", "double", "done"})
        => LET bestTeams == opt.heap[opt.best]
           IN  /\ Len(bestTeams) = Len(given)
               /\ \A k \in DOMAIN given : Len(bestTeams[k]) = Len(given[k])
               /\ Range(Flat(bestTeams)) = Range(Flat(given))
               /\ Cardinality(Range(Flat(bestTeams))) = Len(Flat(given))
               /\ opt.bestScore = evaluateTeams(bestTeams).score

\* It has returned a line-up that is not the input's, better but not perfect.
C29_Witness ==
    /\ call = "optimizeTeams"
    /\ run = 1
    /\ opt.pc = "done"
    /\ opt.heap[opt.best] # given
    /\ opt.bestScore > 0
    /\ opt.bestScore < evaluateTeams(given).score
    /\ Range(Flat(opt.heap[opt.best])) = Range(Flat(given))

\* The preconditions of validatePlayerCount the call breaks, by rank: 1 the
\* team count is below 2, 2 the roster is smaller than the team count, 3 the
\* roster is not divisible by the team count, 4 there are more captains than
\* teams.
Broken ==
    {r \in 1..4 :
        CASE r = 1 -> numTeams < 2
          [] r = 2 -> Len(players) < numTeams
          [] r = 3 -> numTeams = 0 \/ Len(players) % numTeams # 0
          [] r = 4 -> Len(RosterCaptains) > numTeams}

RankedErrors == <<ERR_TEAMS_LT_2, ERR_NOT_ENOUGH, ERR_NOT_DIVISIBLE, ERR_CAPTAINS>>

\* C30: validatePlayerCount reports exactly one error when preconditions are
\* broken, the one of the lowest rank among the broken ones, whatever else is
\* broken with it; and none when none is.
C30_FirstBrokenPreconditionReported ==
    (pc = "done" /\ call = "validatePlayerCount")
        => IF Broken = {}
           THEN ret.error = ""
           ELSE \E r \in Broken :
                  /\ \A q \in Broken : r <= q
                  /\ ret.error = RankedErrors[r]

\* Three captains for two teams: the roster also does not divide, and that
\* is the error reported.
C30_Witness ==
    /\ pc = "done"
    /\ call = "validatePlayerCount"
    /\ Broken = {3, 4}
    /\ ret.error = ERR_NOT_DIVISIBLE

====
